---- MODULE Spec2Model ----
(***************************************************************************)
(* Model of the WhatsApp webhook ingestion pipeline of app.py: payload     *)
(* traversal, link extraction, media download, fingerprinting and the      *)
(* dedup insert into whatsapp.deals, plus process start-up and the reads.  *)
(*                                                                         *)
(* Texts are sequences of one-character strings.  An optional (nullable)   *)
(* value is None (the empty tuple) or Some(x) (a one-element tuple).       *)
(***************************************************************************)
EXTENDS Integers, Sequences, FiniteSets, TLC

\* ------------------------------------------------------------------ bounds
MaxRequests == 2

\* ------------------------------------------------------------ configuration
\* DAYS_TO_SHOW and MAX_ITEMS as the environment sets them here; the clock
\* counts in the unit of the freshness window
DAYS_TO_SHOW == 4
MAX_ITEMS == 2

\* the secret the verification request is compared with
VERIFY_TOKEN == "change-me"

\* ------------------------------------------------------------ basic values
None == <<>>
Some(x) == <<x>>

Procs == {1, 2}

RECURSIVE DigitsOf(_)
\* str() of a non-negative integer
DigitsOf(n) ==
  LET d == <<"0","1","2","3","4","5","6","7","8","9">>
  IN IF n < 10 THEN <<d[n + 1]>> ELSE DigitsOf(n \div 10) \o <<d[(n % 10) + 1]>>

DigitVal(c) ==
  CASE c = "0" -> 0 [] c = "1" -> 1 [] c = "2" -> 2 [] c = "3" -> 3
    [] c = "4" -> 4 [] c = "5" -> 5 [] c = "6" -> 6 [] c = "7" -> 7
    [] c = "8" -> 8 [] c = "9" -> 9 [] OTHER -> -1

RECURSIVE ParseFrom(_, _, _)
ParseFrom(s, i, acc) ==
  IF i > Len(s) THEN acc
  ELSE IF DigitVal(s[i]) < 0 THEN -1
  ELSE ParseFrom(s, i + 1, acc * 10 + DigitVal(s[i]))

\* int(ts) on a string of decimal digits; -1 stands for ValueError
ParseInt(s) == IF Len(s) = 0 THEN -1 ELSE ParseFrom(s, 1, 0)

\* ------------------------------------------------------------ URL_RE
Lower(c) ==
  CASE c = "H" -> "h" [] c = "T" -> "t" [] c = "P" -> "p" [] c = "S" -> "s"
    [] OTHER -> c

\* the characters excluded by [^\s<>()"']
IsTerminator(c) == c \in {" ", "<", ">", "(", ")", "\"", "'"}

LitAt(t, i, lit) ==
  /\ i + Len(lit) - 1 <= Len(t)
  /\ \A k \in 1..Len(lit) : Lower(t[i + k - 1]) = lit[k]

\* index just past the maximal run of non-terminators starting at i
BodyEnd(t, i) ==
  CHOOSE j \in i..(Len(t) + 1) :
    /\ (j = Len(t) + 1 \/ IsTerminator(t[j]))
    /\ \A k \in i..(j - 1) : ~IsTerminator(t[k])

\* end (exclusive) of the match of https?://[^\s<>()"']+ at i, or 0
MatchEnd(t, i) ==
  LET http == <<"h","t","t","p">>
      sep == <<":","/","/">>
      withS == LitAt(t, i, http \o <<"s">> \o sep) /\ BodyEnd(t, i + 8) > i + 8
      noS == LitAt(t, i, http \o sep) /\ BodyEnd(t, i + 7) > i + 7
  IN IF withS THEN BodyEnd(t, i + 8)
     ELSE IF noS THEN BodyEnd(t, i + 7)
     ELSE 0

\* URL_RE.findall(text): the non-overlapping matches, scanning left to right
URL_RE_findall(t) ==
  LET FindFrom[i \in 1..(Len(t) + 1)] ==
        IF i > Len(t) THEN <<>>
        ELSE LET e == MatchEnd(t, i)
             IN IF e = 0 THEN FindFrom[i + 1]
                ELSE <<SubSeq(t, i, e - 1)>> \o FindFrom[e]
  IN FindFrom[1]

\* ------------------------------------------------------------ fingerprint
\* f"{x}" of an optional string: None is rendered as the text None
Fmt(o) == IF o = None THEN <<"N","o","n","e">> ELSE o[1]

\* the digest, injective on its input string
sha256(s) == <<"sha256", s>>

\* faulty variant: the url is left out of the hashed string
url_hash_without_url(wa_from, wa_name, msg_time, url) ==
  sha256(Fmt(wa_from) \o <<"|">> \o Fmt(wa_name) \o <<"|">>
         \o DigitsOf(msg_time))

\* faulty variant: only the sender and the url are hashed
url_hash_sender_url(wa_from, wa_name, msg_time, url) ==
  sha256(Fmt(wa_from) \o <<"|">> \o url)

\* url_hash = sha256(f"{wa_from}|{wa_name}|{msg_time}|{url}")
url_hash_of(wa_from, wa_name, msg_time, url) ==
  sha256(Fmt(wa_from) \o <<"|">> \o Fmt(wa_name) \o <<"|">>
         \o DigitsOf(msg_time) \o <<"|">> \o url)

\* ------------------------------------------------------------ download_media
\* responses the Graph API can give to the two chained requests
MetaResponses ==
  { [status |-> 500, url |-> None, has_mime |-> FALSE, mime_type |-> None],
    [status |-> 200, url |-> None, has_mime |-> TRUE, mime_type |-> Some("image/jpeg")],
    [status |-> 200, url |-> Some("cdn"), has_mime |-> TRUE, mime_type |-> Some("image/jpeg")],
    [status |-> 200, url |-> Some("cdn"), has_mime |-> FALSE, mime_type |-> None],
    [status |-> 200, url |-> Some("cdn"), has_mime |-> TRUE, mime_type |-> None] }

ContentResponses ==
  { [status |-> 500, content |-> <<>>],
    [status |-> 200, content |-> <<>>],
    [status |-> 200, content |-> <<7>>] }

Raised == [raised |-> TRUE]

\* download_media(media_id) under the given credential and responses
download_media(token, meta, content) ==
  IF ~token THEN Raised
  ELSE IF meta.status # 200 THEN Raised
  ELSE LET media_url == meta.url
           mime == IF meta.has_mime THEN meta.mime_type
                   ELSE Some("application/octet-stream")
       IN IF media_url = None THEN Raised
          ELSE IF content.status # 200 THEN Raised
          ELSE [raised |-> FALSE, bytes |-> Some(content.content), mime |-> mime]

\* ------------------------------------------------------------ payloads
HTTP == <<"h","t","t","p",":","/","/">>
HTTPS == <<"h","t","t","p","s",":","/","/">>
T_a == HTTP \o <<"a">>
T_b == <<"s","e","e"," ">> \o HTTPS \o <<"b",")">>
T_c == <<"H","T","T","P",":","/","/","c">>
T_dup == T_a \o <<" ">> \o T_a
T_three == T_a \o <<" ">> \o T_b \o <<" ">> \o T_c
T_plain == <<"h","i"," ","h","t","t","p",":","/","/"," ">>

BadFragment == [bad |-> TRUE]

TextMsg(from, ts, body) ==
  [bad |-> FALSE, from |-> from, timestamp |-> ts, type |-> "text",
   text |-> body, media_id |-> None]

ImageMsg(from, ts, caption, media_id) ==
  [bad |-> FALSE, from |-> from, timestamp |-> ts, type |-> "image",
   text |-> caption, media_id |-> media_id]

OtherMsg(from, ts) ==
  [bad |-> FALSE, from |-> from, timestamp |-> ts, type |-> "sticker",
   text |-> <<>>, media_id |-> None]

Contact(name) == [bad |-> FALSE, name |-> name]
Change(contacts, messages) ==
  [bad |-> FALSE, contacts |-> contacts, messages |-> messages]
Entry(changes) == [bad |-> FALSE, changes |-> changes]

Ana == Some(<<"A","n","a">>)
Bia == Some(<<"B","i","a">>)
NoneName == Some(<<"N","o","n","e">>)
From5 == Some(<<"5">>)
From6 == Some(<<"6">>)
Ts1 == Some(<<"1">>)
TsBad == Some(<<"x">>)

\* the webhook payloads delivered in the model: payload.get("entry", [])
Payloads ==
  << \* 1: one text message holding the same link twice
     <<Entry(<<Change(<<Contact(Ana)>>, <<TextMsg(From5, Ts1, T_dup)>>)>>)>>,
     \* 2: a message without timestamp
     <<Entry(<<Change(<<Contact(Ana)>>, <<TextMsg(From5, None, T_a)>>)>>)>>,
     \* 3: text, image with media id, text
     <<Entry(<<Change(<<Contact(Ana)>>,
         <<TextMsg(From5, Ts1, T_b),
           ImageMsg(From5, Ts1, T_c, Some("m1")),
           TextMsg(From6, Ts1, T_a)>>)>>)>>,
     \* 4: a non-numeric timestamp and a non-object entry among well-formed
     \*    messages and entries
     <<Entry(<<Change(<<Contact(Ana)>>,
         <<TextMsg(From6, Ts1, T_b), TextMsg(From5, TsBad, T_b),
           TextMsg(From6, Ts1, T_c)>>)>>),
       BadFragment,
       Entry(<<Change(<<>>, <<TextMsg(From6, Ts1, T_a)>>)>>)>>,
     \* 5: an image whose caption holds three links
     <<Entry(<<Change(<<Contact(Bia)>>,
         <<ImageMsg(From5, Ts1, T_three, Some("m2"))>>)>>)>>,
     \* 6: the contact is literally named None
     <<Entry(<<Change(<<Contact(NoneName)>>, <<TextMsg(From5, Ts1, T_a)>>)>>)>>,
     \* 7: no contacts block; an image without media id, a sticker
     <<Entry(<<Change(<<>>,
         <<TextMsg(From5, Ts1, T_a), OtherMsg(From6, Ts1),
           ImageMsg(None, Ts1, T_c, None)>>)>>)>>,
     \* 8: one text message without link
     <<Entry(<<Change(<<Contact(Bia)>>, <<TextMsg(From6, Ts1, T_plain)>>)>>)>>,
     \* 9: a value block with two contacts and two senders, one of them an
     \*    image without link in its caption; then a block without contacts
     <<Entry(<<Change(<<Contact(Ana), Contact(Bia)>>,
                      <<TextMsg(From6, Ts1, T_a),
                        ImageMsg(From5, Ts1, T_plain, Some("m3"))>>),
               Change(<<>>, <<TextMsg(From5, Ts1, T_b)>>)>>)>>,
     \* 10: a sticker with a non-numeric timestamp before a text message
     <<Entry(<<Change(<<Contact(Ana)>>,
         <<OtherMsg(From5, TsBad), TextMsg(From6, Ts1, T_a)>>)>>)>> >>

PayloadIds == 1..Len(Payloads)

\* ------------------------------------------------------------ traversal
RaiseItem == [kind |-> "raise"]

\* faulty variant: the name is taken from the last contact of the block
ChangeItems_last_contact(ch) ==
  IF ch.bad THEN <<RaiseItem>>
  ELSE IF ch.contacts # <<>> /\ ch.contacts[1].bad THEN <<RaiseItem>>
  ELSE LET wa_name == IF ch.contacts = <<>> THEN None
                      ELSE ch.contacts[Len(ch.contacts)].name
       IN [k \in 1..Len(ch.messages) |->
             [kind |-> "msg", wa_name |-> wa_name, m |-> ch.messages[k]]]

\* the messages of one change, each with the wa_name of its value block
ChangeItems(ch) ==
  IF ch.bad THEN <<RaiseItem>>
  ELSE IF ch.contacts # <<>> /\ ch.contacts[1].bad THEN <<RaiseItem>>
  ELSE LET wa_name == IF ch.contacts = <<>> THEN None ELSE ch.contacts[1].name
       IN [k \in 1..Len(ch.messages) |->
             [kind |-> "msg", wa_name |-> wa_name, m |-> ch.messages[k]]]

\* the concatenation of a sequence of sequences
Flatten(ss) ==
  LET F[k \in 0..Len(ss)] == IF k = 0 THEN <<>> ELSE F[k - 1] \o ss[k]
  IN F[Len(ss)]

\* for ch in entry.get("changes", [])
ChangesItems(changes) ==
  Flatten([k \in 1..Len(changes) |-> ChangeItems(changes[k])])

\* for entry in entries
EntriesItems(entries) ==
  Flatten([k \in 1..Len(entries) |->
             IF entries[k].bad THEN <<RaiseItem>>
             ELSE ChangesItems(entries[k].changes)])

\* the prefix of items up to and including the first raise
UpToRaise(items) ==
  LET raises == {k \in 1..Len(items) : items[k].kind = "raise"}
  IN IF raises = {} THEN items
     ELSE SubSeq(items, 1, CHOOSE k \in raises : \A j \in raises : k <= j)

\* text of a message: the body of a text, the caption of an image, else ""
TextOf(m) == IF m.type \in {"text", "image"} THEN m.text ELSE <<>>

\* every fragment of each payload in traversal order
AllItemsOf == [pid \in PayloadIds |-> EntriesItems(Payloads[pid])]
AllItems(pid) == AllItemsOf[pid]

\* the order in which the nested loops of webhook_receive reach the messages;
\* a fragment on which the traversal raises ends the sequence
ItemsOf == [pid \in PayloadIds |-> UpToRaise(AllItemsOf[pid])]
Items(pid) == ItemsOf[pid]

\* urls = URL_RE.findall(text or "") of each message of each payload
UrlsOf ==
  [pid \in PayloadIds |->
    [k \in 1..Len(AllItemsOf[pid]) |->
      LET item == AllItemsOf[pid][k]
      IN IF item.kind = "msg" /\ ~item.m.bad
         THEN URL_RE_findall(TextOf(item.m))
         ELSE <<>>]]

\* ------------------------------------------------------------ state
VARIABLES
  database_url_set,   \* DATABASE_URL is non-empty
  whatsapp_token_set, \* WHATSAPP_TOKEN is non-empty
  proc,               \* the process: "init", "running" or "crashed"
  now,                \* the clock: it advances as requests arrive and rows are stamped
  deals,              \* the committed rows of whatsapp.deals
  next_id,            \* the BIGSERIAL sequence of deals.id
  requests,           \* HTTP requests received so far
  route,              \* the route of the last request received
  pc,                 \* position of each request handler
  payload,            \* the payload each handler is processing
  i,                  \* index of the current message in Items(payload)
  u,                  \* index of the current url of the current message
  msg_time,           \* msg_time of the current message
  image_bytes,        \* image_bytes of the current message
  image_mime,         \* image_mime of the current message
  pending,            \* the row inserted by the handler's open transaction
  failure,            \* what raised in the handler's try block, or "none"
  last_save,          \* outcome of the handler's last INSERT
  resp,               \* the response of the handler
  handled_ok,         \* payloads some handler processed without exception
  gallery_status,     \* status of the last GET / request, 0 before any
  since,              \* since of the last GET / request
  gallery_items,      \* the rows the last GET / request listed
  img_request,        \* item_id of the last GET /img/<item_id>, -1 before any
  img_response,       \* the response to it
  verify_request,     \* query parameters of the last GET /webhook
  verify_response,    \* the response to it
  media_calls         \* the messages each handler called download_media for

vars ==
  <<database_url_set, whatsapp_token_set, proc, now, deals, next_id,
    requests, route, pc, payload, i, u, msg_time, image_bytes, image_mime,
    pending, failure, last_save, resp, handled_ok, gallery_status,
    since, gallery_items, img_request, img_response, verify_request,
    verify_response, media_calls>>

gallery == <<gallery_status, since, gallery_items>>
image == <<img_request, img_response>>
verification == <<verify_request, verify_response>>
reads == <<gallery, image, verification>>

config == <<database_url_set, whatsapp_token_set>>
store == <<deals, next_id>>
locals == <<msg_time, image_bytes, image_mime>>

Init ==
  /\ database_url_set \in BOOLEAN
  /\ whatsapp_token_set \in BOOLEAN
  /\ proc = "init"
  /\ now = 1
  /\ deals = {}
  /\ next_id = 1
  /\ requests = 0
  /\ route = ""
  /\ pc = [p \in Procs |-> "idle"]
  /\ payload = [p \in Procs |-> 1]
  /\ i = [p \in Procs |-> 1]
  /\ u = [p \in Procs |-> 1]
  /\ msg_time = [p \in Procs |-> 0]
  /\ image_bytes = [p \in Procs |-> None]
  /\ image_mime = [p \in Procs |-> None]
  /\ pending = [p \in Procs |-> None]
  /\ failure = [p \in Procs |-> "none"]
  /\ last_save = [p \in Procs |-> "none"]
  /\ resp = [p \in Procs |-> 0]
  /\ handled_ok = {}
  /\ gallery_status = 0
  /\ since = 0
  /\ gallery_items = <<>>
  /\ img_request = -1
  /\ img_response = [status |-> 0, raised |-> "", body |-> None, mimetype |-> None]
  /\ verify_request = [sent |-> FALSE, mode |-> None, token |-> None,
                       challenge |-> None]
  /\ verify_response = [status |-> 0, body |-> ""]
  /\ media_calls = [p \in Procs |-> <<>>]

\* ------------------------------------------------------------ start-up
\* db_conn(): raises RuntimeError when DATABASE_URL is empty
db_conn_raises(url_set) == ~url_set

\* module import: init_db() runs before the first request is served
init_db ==
  /\ proc = "init"
  /\ proc' = IF db_conn_raises(database_url_set) THEN "crashed" ELSE "running"
  /\ UNCHANGED <<config, now, store, requests, route, pc, payload, i, u, locals,
                 pending, failure, last_save, resp, handled_ok, reads,
                 media_calls>>

\* ------------------------------------------------------------ webhook_receive
CurItem(p) == Items(payload[p])[i[p]]
CurMsg(p) == CurItem(p).m

CurUrls(p) == UrlsOf[payload[p]][i[p]]
CurUrl(p) == CurUrls(p)[u[p]]

\* "if ts": None and the empty string are falsy
Truthy(ts) == ts # None /\ ts[1] # <<>>

\* faulty variant: the except block re-raises, so the server answers 500
webhook_response_reraise(raised) == IF raised THEN 500 ELSE 200

\* the status webhook_receive answers with: the except block prints and
\* falls through to the same return "ok", 200 as the normal path
webhook_response(raised) == 200

\* the handler leaves the loops, through the except block when something
\* raised (cause is not "none"), and returns
Finish(p, cause) ==
  /\ pc' = [pc EXCEPT ![p] = "done"]
  /\ failure' = [failure EXCEPT ![p] = cause]
  /\ resp' = [resp EXCEPT ![p] = webhook_response(cause # "none")]
  /\ handled_ok' = IF cause # "none" THEN handled_ok
                   ELSE handled_ok \cup {payload[p]}
  /\ msg_time' = [msg_time EXCEPT ![p] = 0]
  /\ image_bytes' = [image_bytes EXCEPT ![p] = None]
  /\ image_mime' = [image_mime EXCEPT ![p] = None]

\* the request is given to the first free handler
FreeHandler(p) ==
  /\ pc[p] \in {"idle", "done"}
  /\ \A q \in Procs : pc[q] \in {"idle", "done"} => p <= q

\* POST /webhook arrives: payload = request.get_json(...)
Receive(p, pid) ==
  /\ proc = "running"
  /\ FreeHandler(p)
  /\ requests < MaxRequests
  /\ requests' = requests + 1
  /\ route' = "POST /webhook"
  /\ now' = now + 1
  /\ payload' = [payload EXCEPT ![p] = pid]
  /\ i' = [i EXCEPT ![p] = 1]
  /\ u' = [u EXCEPT ![p] = 1]
  /\ last_save' = [last_save EXCEPT ![p] = "none"]
  /\ IF Items(pid) = <<>>
     THEN /\ pc' = [pc EXCEPT ![p] = "done"]
          /\ resp' = [resp EXCEPT ![p] = webhook_response(FALSE)]
          /\ handled_ok' = handled_ok \cup {pid}
     ELSE /\ pc' = [pc EXCEPT ![p] = "loop"]
          /\ resp' = [resp EXCEPT ![p] = 0]
          /\ handled_ok' = handled_ok
  /\ failure' = [failure EXCEPT ![p] = "none"]
  /\ media_calls' = [media_calls EXCEPT ![p] = <<>>]
  /\ UNCHANGED <<config, proc, store, locals, pending, reads>>

\* the loop moves on to message k of the payload, or ends after the last one
NextMessage(p, k) ==
  IF k > Len(Items(payload[p]))
  THEN Finish(p, "none") /\ UNCHANGED <<i, u>>
  ELSE /\ i' = [i EXCEPT ![p] = k]
       /\ u' = [u EXCEPT ![p] = 1]
       /\ pc' = [pc EXCEPT ![p] = "loop"]
       /\ msg_time' = [msg_time EXCEPT ![p] = 0]
       /\ image_bytes' = [image_bytes EXCEPT ![p] = None]
       /\ image_mime' = [image_mime EXCEPT ![p] = None]
       /\ UNCHANGED <<failure, resp, handled_ok>>

\* the message is read and its media downloaded; then either its first url is
\* ready to be saved or, with no url, the loop moves to the next message
Proceed(p, t, bytes, mime) ==
  IF CurUrls(p) = <<>>
  THEN NextMessage(p, i[p] + 1)
  ELSE /\ pc' = [pc EXCEPT ![p] = "save"]
       /\ msg_time' = [msg_time EXCEPT ![p] = t]
       /\ image_bytes' = [image_bytes EXCEPT ![p] = bytes]
       /\ image_mime' = [image_mime EXCEPT ![p] = mime]
       /\ UNCHANGED <<i, u, failure, resp, handled_ok>>

\* faulty variant: the media id of an image message is not tested
calls_download_media_unguarded(m) == m.type = "image"

\* mtype == "image" and media_id: the message has its media downloaded
calls_download_media(m) == m.type = "image" /\ m.media_id # None

\* one iteration of "for m in messages" up to the url loop; an exception
\* anywhere in the try block ends all the loops
ProcessMessage(p) ==
  /\ pc[p] = "loop"
  /\ IF CurItem(p).kind = "raise" \/ CurMsg(p).bad
     THEN Finish(p, "malformed") /\ UNCHANGED <<i, u>>
     ELSE LET m == CurMsg(p)
              ts == m.timestamp
              t == IF Truthy(ts) THEN ParseInt(ts[1]) ELSE now
          IN IF t < 0
             THEN Finish(p, "malformed") /\ UNCHANGED <<i, u>>
             ELSE IF calls_download_media(m)
             THEN \E meta \in MetaResponses, content \in ContentResponses :
                    LET r == download_media(whatsapp_token_set, meta, content)
                    IN IF r.raised
                       THEN Finish(p, "media") /\ UNCHANGED <<i, u>>
                       ELSE Proceed(p, t, r.bytes, r.mime)
             ELSE Proceed(p, t, None, None)
  /\ media_calls' =
       IF /\ CurItem(p).kind = "msg"
          /\ ~CurMsg(p).bad
          /\ ~(Truthy(CurMsg(p).timestamp) /\ ParseInt(CurMsg(p).timestamp[1]) < 0)
          /\ calls_download_media(CurMsg(p))
       THEN [media_calls EXCEPT ![p] = Append(@, i[p])]
       ELSE media_calls
  /\ UNCHANGED <<config, proc, now, store, requests, route, payload, pending,
                 last_save, reads>>

\* ------------------------------------------------------------ save_deal
\* Binary(image_bytes) if image_bytes else None
StoredBytes(b) == IF b # None /\ b[1] # <<>> THEN b ELSE None

\* the row of the INSERT statement for the current url of handler p
NewRow(p) ==
  LET m == CurMsg(p)
      wa_name == CurItem(p).wa_name
  IN [id |-> next_id,
      wa_from |-> m.from,
      wa_name |-> wa_name,
      msg_time |-> msg_time[p],
      url |-> CurUrl(p),
      url_hash |-> url_hash_of(m.from, wa_name, msg_time[p], CurUrl(p)),
      image_bytes |-> StoredBytes(image_bytes[p]),
      image_mime |-> image_mime[p],
      created_at |-> now]

\* faulty variant: a plain INSERT into a table without the UNIQUE constraint
Conflict_never(rows, h) == FALSE

\* ON CONFLICT (url_hash): a committed row holds the same url_hash
Conflict(rows, h) == \E d \in rows : d.url_hash = h

\* faulty variant: the conflict check sees committed rows only and does not wait
InsertWaits_never(p, h) == FALSE

\* UNIQUE (url_hash): the insert waits while another open transaction holds
\* an uncommitted row with the same url_hash
InsertWaits(p, h) ==
  \E q \in Procs \ {p} : pending[q] # None /\ pending[q][1].url_hash = h

\* faulty variant: ON CONFLICT (url_hash) DO UPDATE SET the media columns
on_conflict_do_update(rows, row) ==
  {IF d.url_hash = row.url_hash
   THEN [d EXCEPT !.image_bytes = row.image_bytes, !.image_mime = row.image_mime]
   ELSE d : d \in rows}

\* ON CONFLICT (url_hash) DO NOTHING: the table after the conflicting INSERT
on_conflict(rows, row) == rows

\* faulty variant: the connection is closed without conn.commit()
commit_missing(rows, pend) == rows

\* conn.commit(): the table once the open transaction, if it holds a row,
\* is committed
commit(rows, pend) == IF pend = None THEN rows ELSE rows \cup {pend[1]}

\* save_deal up to cur.execute: connect, then INSERT ... ON CONFLICT DO NOTHING;
\* the sequence of deals.id advances whether or not the row is kept, and the
\* clock moves on past the instant that stamps created_at
SaveExecute(p) ==
  /\ pc[p] = "save"
  /\ \E conn_ok \in BOOLEAN :
       IF ~conn_ok
       THEN /\ Finish(p, "store")
            /\ UNCHANGED <<store, now, pending, last_save>>
       ELSE LET row == NewRow(p)
            IN /\ ~InsertWaits(p, row.url_hash)
               /\ next_id' = next_id + 1
               /\ now' = now + 1
               /\ IF Conflict(deals, row.url_hash)
                  THEN /\ deals' = on_conflict(deals, row)
                       /\ pending' = pending
                       /\ last_save' = [last_save EXCEPT ![p] = "skipped"]
                  ELSE /\ deals' = deals
                       /\ pending' = [pending EXCEPT ![p] = Some(row)]
                       /\ last_save' = [last_save EXCEPT ![p] = "inserted"]
               /\ pc' = [pc EXCEPT ![p] = "commit"]
               /\ UNCHANGED <<locals, failure, resp, handled_ok>>
  /\ UNCHANGED <<config, proc, requests, route, payload, i, u, reads,
                 media_calls>>

\* conn.commit() and conn.close(), then the next url or the next message
SaveCommit(p) ==
  /\ pc[p] = "commit"
  /\ deals' = commit(deals, pending[p])
  /\ pending' = [pending EXCEPT ![p] = None]
  /\ IF u[p] < Len(CurUrls(p))
     THEN /\ u' = [u EXCEPT ![p] = u[p] + 1]
          /\ pc' = [pc EXCEPT ![p] = "save"]
          /\ UNCHANGED <<i, locals, failure, resp, handled_ok>>
     ELSE NextMessage(p, i[p] + 1)
  /\ UNCHANGED <<config, proc, now, next_id, requests, route, payload,
                 last_save, reads, media_calls>>

\* ------------------------------------------------------------ reads
Min(a, b) == IF a <= b THEN a ELSE b

\* the time that passes before a GET / arrives: a moment, or most of the
\* freshness window
Elapsed == {1, 3}

\* faulty variant: the query does not test image_bytes
gallery_where_any_image(rows, t) ==
  {d \in rows : d.url # None /\ d.created_at >= t}

\* WHERE image_bytes IS NOT NULL AND url IS NOT NULL AND created_at >= since
gallery_where(rows, t) ==
  {d \in rows : d.image_bytes # None /\ d.url # None /\ d.created_at >= t}

\* ORDER BY created_at DESC LIMIT MAX_ITEMS: the results the query can give
\* (rows of equal created_at come in any order)
gallery_order_limit(matching) ==
  LET n == Min(MAX_ITEMS, Cardinality(matching))
  IN {rows \in [1..n -> matching] :
        /\ \A a \in 1..n, b \in 1..n :
             a < b => /\ rows[a] # rows[b]
                      /\ rows[a].created_at >= rows[b].created_at
        /\ \A d \in matching :
             (\A a \in 1..n : rows[a] # d)
             => \A a \in 1..n : rows[a].created_at >= d.created_at}

\* GET /: the listing is served unless the connection fails
marketplace ==
  /\ proc = "running"
  /\ requests < MaxRequests
  /\ requests' = requests + 1
  /\ route' = "GET /"
  /\ \E dt \in Elapsed : now' = now + dt
  /\ since' = now' - DAYS_TO_SHOW
  /\ \E conn_ok \in BOOLEAN :
       IF conn_ok
       THEN /\ gallery_status' = 200
            /\ \E rows \in gallery_order_limit(gallery_where(deals, since')) :
                 gallery_items' =
                   [k \in DOMAIN rows |->
                      [id |-> rows[k].id, url |-> rows[k].url,
                       created_at |-> rows[k].created_at]]
       ELSE /\ gallery_status' = 500
            /\ gallery_items' = <<>>
  /\ UNCHANGED <<config, proc, store, pc, payload, i, u, locals,
                 pending, failure, last_save, resp, handled_ok, image,
                 verification, media_calls>>

\* cur.fetchone() of SELECT ... WHERE id = item_id
img_row(rows, item_id) ==
  IF \E d \in rows : d.id = item_id
  THEN Some(CHOOSE d \in rows : d.id = item_id)
  ELSE None

\* faulty variant: only a missing row is answered 404, and bytes(None) raises
img_reply_unchecked(rows, item_id) ==
  LET row == img_row(rows, item_id)
  IN IF row = None
     THEN [status |-> 404, raised |-> "", body |-> None, mimetype |-> None]
     ELSE IF row[1].image_bytes = None
     THEN [status |-> 500, raised |-> "bytes", body |-> None, mimetype |-> None]
     ELSE [status |-> 200, raised |-> "", body |-> row[1].image_bytes,
           mimetype |-> IF row[1].image_mime # None /\ row[1].image_mime[1] # ""
                        THEN row[1].image_mime
                        ELSE Some("application/octet-stream")]

\* the response of img once the query has run
img_reply(rows, item_id) ==
  LET row == img_row(rows, item_id)
  IN IF row = None \/ row[1].image_bytes = None
     THEN [status |-> 404, raised |-> "", body |-> None, mimetype |-> None]
     ELSE [status |-> 200, raised |-> "", body |-> row[1].image_bytes,
           mimetype |-> IF row[1].image_mime # None /\ row[1].image_mime[1] # ""
                        THEN row[1].image_mime
                        ELSE Some("application/octet-stream")]

\* GET /img/<item_id>
img(item_id) ==
  /\ proc = "running"
  /\ requests < MaxRequests
  /\ requests' = requests + 1
  /\ route' = "GET /img"
  /\ img_request' = item_id
  /\ \E conn_ok \in BOOLEAN :
       img_response' = IF conn_ok THEN img_reply(deals, item_id)
                       ELSE [status |-> 500, raised |-> "db_conn",
                             body |-> None, mimetype |-> None]
  /\ UNCHANGED <<config, proc, now, store, pc, payload, i, u, locals,
                 pending, failure, last_save, resp, handled_ok, gallery,
                 verification, media_calls>>

\* the query parameters a GET /webhook can carry
Modes == {None, Some("subscribe"), Some("unsubscribe")}
Tokens == {None, Some(VERIFY_TOKEN), Some("guess"), Some("")}
Challenges == {None, Some(""), Some("1158201444")}

\* faulty variant: hub.mode is not compared
verify_reply_any_mode(mode, token, challenge) ==
  IF token = Some(VERIFY_TOKEN)
  THEN [status |-> 200,
        body |-> IF challenge # None /\ challenge[1] # "" THEN challenge[1] ELSE ""]
  ELSE [status |-> 403, body |-> "forbidden"]

\* the response of webhook_verify to the three query parameters
verify_reply(mode, token, challenge) ==
  IF mode = Some("subscribe") /\ token = Some(VERIFY_TOKEN)
  THEN [status |-> 200,
        body |-> IF challenge # None /\ challenge[1] # "" THEN challenge[1] ELSE ""]
  ELSE [status |-> 403, body |-> "forbidden"]

\* GET /webhook
webhook_verify(mode, token, challenge) ==
  /\ proc = "running"
  /\ requests < MaxRequests
  /\ requests' = requests + 1
  /\ route' = "GET /webhook"
  /\ verify_request' = [sent |-> TRUE, mode |-> mode, token |-> token,
                        challenge |-> challenge]
  /\ verify_response' = verify_reply(mode, token, challenge)
  /\ UNCHANGED <<config, proc, now, store, pc, payload, i, u, locals,
                 pending, failure, last_save, resp, handled_ok, gallery,
                 image, media_calls>>

\* ------------------------------------------------------------ specification
Step(p) ==
  \/ ProcessMessage(p)
  \/ SaveExecute(p)
  \/ SaveCommit(p)

\* no request is being handled
Quiet == \A q \in Procs : pc[q] \in {"idle", "done"}

\* the payloads delivered while another delivery is still being handled
RacePayloads == {1, 2, 6, 7}

\* one worker: a request is taken when the previous one has been answered
Next ==
  \/ init_db
  \/ Quiet /\ marketplace
  \/ \E p \in Procs, pid \in PayloadIds : Quiet /\ Receive(p, pid)
  \/ \E p \in Procs : Step(p)

Spec == Init /\ [][Next]_vars

\* concurrent workers: deliveries overlap in every interleaving of their steps
ConcNext ==
  \/ init_db
  \/ marketplace
  \/ \E p \in Procs, pid \in RacePayloads : Receive(p, pid)
  \/ \E p \in Procs : Step(p)

ConcSpec == Init /\ [][ConcNext]_vars

\* every started handler keeps running: the server schedules each request
\* and the store ends each transaction
FairSpec == Spec /\ \A p \in Procs : WF_vars(Step(p))

FairConcSpec == ConcSpec /\ \A p \in Procs : WF_vars(Step(p))

\* the payloads delivered between the reads: those that carry images
ReadPayloads == {3, 5}

\* one worker serving the deliveries and the three GET routes
ReadNext ==
  \/ init_db
  \/ Quiet /\ marketplace
  \/ \E item_id \in 0..next_id : Quiet /\ img(item_id)
  \/ \E mode \in Modes, token \in Tokens, challenge \in Challenges :
       Quiet /\ webhook_verify(mode, token, challenge)
  \/ \E p \in Procs, pid \in ReadPayloads : Quiet /\ Receive(p, pid)
  \/ \E p \in Procs : Step(p)

ReadSpec == Init /\ [][ReadNext]_vars

\* ------------------------------------------------------------ properties
Range(f) == {f[k] : k \in DOMAIN f}

\* a message the loop body can process: an object with a usable timestamp
WellFormed(item) ==
  /\ item.kind = "msg"
  /\ ~item.m.bad
  /\ (Truthy(item.m.timestamp) => ParseInt(item.m.timestamp[1]) >= 0)

\* a Deal for this link of this message is in the store
Persisted(item, url) ==
  \E d \in deals :
    d.wa_from = item.m.from /\ d.wa_name = item.wa_name /\ d.url = url

\* every link of every well-formed message of the payload, except message k,
\* is persisted
SiblingsPersisted(pid, k) ==
  \A j \in 1..Len(AllItems(pid)) :
    (j # k /\ WellFormed(AllItems(pid)[j])) =>
      \A url \in Range(UrlsOf[pid][j]) :
        Persisted(AllItems(pid)[j], url)

InFlight(p) == pc[p] \in {"save", "commit"}

\* C1: replaying a payload that was already handled without exception adds
\* no Deal to the store, and every replay is answered with 200.
C1_ReplayIdempotent ==
  [][\A p \in Procs :
       /\ (pc[p] = "commit" /\ deals' # deals) => payload[p] \notin handled_ok
       /\ (pc'[p] = "done") => resp'[p] = 200]_vars

\* C2: no two Deals have the same fingerprint, and an insert whose fingerprint
\* is already stored adds no row and raises no error.
NoDuplicateFingerprint ==
  \A d1 \in deals, d2 \in deals : d1.url_hash = d2.url_hash => d1 = d2

C2_FingerprintUnique ==
  /\ []NoDuplicateFingerprint
  /\ [][\A p \in Procs :
          (pc[p] = "save" /\ pc'[p] = "commit"
             /\ Conflict(deals, NewRow(p).url_hash))
          => /\ deals' = deals
             /\ pending'[p] = None
             /\ failure'[p] = "none"]_vars
  /\ [][\A p \in Procs :
          (pc[p] = "commit" /\ pc'[p] # "commit" /\ last_save[p] = "skipped")
          => (deals' = deals /\ failure'[p] = "none")]_vars

\* C2 witness: an INSERT met a stored row with its fingerprint and was skipped
C2_Witness ==
  \E p \in Procs :
    /\ pc[p] = "commit"
    /\ last_save[p] = "skipped"
    /\ Conflict(deals, NewRow(p).url_hash)

\* C3: when a handler has committed its INSERT exactly one Deal holds that
\* fingerprint, also when another handler inserts the same fingerprint at the
\* same time; and two racing handlers both complete with 200.
Racing ==
  \E p \in Procs, q \in Procs :
    /\ p # q
    /\ pc[p] = "commit" /\ pending[p] # None
    /\ pc[q] = "save"
    /\ NewRow(q).url_hash = pending[p][1].url_hash

BothAcknowledged == \A p \in Procs : pc[p] = "done" /\ resp[p] = 200

C3_RaceOneSurvivor ==
  /\ [][\A p \in Procs :
          (pc[p] = "commit" /\ pc'[p] # "commit")
          => Cardinality({d \in deals' : d.url_hash = NewRow(p).url_hash}) = 1]_vars
  /\ (Racing ~> BothAcknowledged)

\* C3 witness: two handlers in flight on the same fingerprint, one of them
\* skipped because of the row the other has just committed
C3_Witness ==
  \E p \in Procs, q \in Procs :
    /\ p # q
    /\ InFlight(p) /\ pc[q] = "commit"
    /\ last_save[p] = "inserted" /\ last_save[q] = "skipped"
    /\ NewRow(p).url_hash = NewRow(q).url_hash
    /\ Cardinality({d \in deals : d.url_hash = NewRow(q).url_hash}) = 1

\* C4: after a delivery in which download_media failed for one message, the
\* links of every other well-formed message of the payload are persisted.
C4_MediaFailureIsolated ==
  \A p \in Procs :
    (pc[p] = "done" /\ failure[p] = "media")
    => SiblingsPersisted(payload[p], i[p])

\* C5: after a delivery in which one fragment was malformed, the links of
\* every well-formed message of the payload are persisted.
C5_MalformedIsolated ==
  \A p \in Procs :
    (pc[p] = "done" /\ failure[p] = "malformed")
    => SiblingsPersisted(payload[p], 0)

\* C6: every POST is eventually answered, and always with 200, whatever
\* raised while it was handled.
AllAnswered == \A p \in Procs : pc[p] = "idle" \/ (pc[p] = "done" /\ resp[p] = 200)

C6_AlwaysAcknowledged ==
  /\ [](\A p \in Procs : pc[p] = "done" => resp[p] = 200)
  /\ (~Quiet ~> AllAnswered)

\* C6 witness: a delivery in which the media download raised was answered 200
C6_Witness ==
  \E p \in Procs : pc[p] = "done" /\ failure[p] = "media" /\ resp[p] = 200

\* C7: every Deal has image_bytes and image_mime both null or both non-null.
C7_MediaBothOrNeither ==
  \A d \in deals : (d.image_bytes = None) <=> (d.image_mime = None)

\* a delivery of a one-message payload into the empty store, handled without
\* exception
SoleMessageDone(p) ==
  /\ requests = 1
  /\ pc[p] = "done"
  /\ failure[p] = "none"
  /\ Len(AllItems(payload[p])) = 1

SameMessage(d1, d2) ==
  /\ d1.wa_from = d2.wa_from
  /\ d1.wa_name = d2.wa_name
  /\ d1.msg_time = d2.msg_time
  /\ d1.image_bytes = d2.image_bytes
  /\ d1.image_mime = d2.image_mime

DiffersInOneField(a, b) ==
  Cardinality({f \in {"wa_from", "wa_name", "msg_time", "url"} : a[f] # b[f]}) = 1

C9_SingleFieldDistinct ==
  \A p \in Procs :
    InFlight(p) =>
      \A d \in deals :
        DiffersInOneField(NewRow(p), d) => NewRow(p).url_hash # d.url_hash

\* C10: the process starts whatever configuration is missing.
C10_StartsWithoutConfig ==
  (~database_url_set \/ ~whatsapp_token_set) => proc # "crashed"

\* the stored Deal a listed item refers to
DealOf(item) == CHOOSE d \in deals : d.id = item.id

\* C11: every item the gallery lists is a stored Deal with an image and a url
\* whose created_at is not older than the freshness window; the items come
\* newest first and are at most MAX_ITEMS.
C11_GalleryListing ==
  gallery_status = 200 =>
    /\ \A k \in DOMAIN gallery_items :
         /\ \E d \in deals : d.id = gallery_items[k].id
         /\ DealOf(gallery_items[k]).image_bytes # None
         /\ DealOf(gallery_items[k]).url # None
         /\ DealOf(gallery_items[k]).url = gallery_items[k].url
         /\ DealOf(gallery_items[k]).created_at = gallery_items[k].created_at
         /\ DealOf(gallery_items[k]).created_at >= since
    /\ \A a \in DOMAIN gallery_items, b \in DOMAIN gallery_items :
         a < b => gallery_items[a].created_at >= gallery_items[b].created_at
    /\ Len(gallery_items) <= MAX_ITEMS

\* C11 witness: the listing is full and newest first while an older Deal with
\* an image is left out
C11_Witness ==
  /\ gallery_status = 200
  /\ Len(gallery_items) = MAX_ITEMS
  /\ gallery_items[1].created_at > gallery_items[2].created_at
  /\ \E d \in deals :
       /\ d.image_bytes # None
       /\ \A k \in DOMAIN gallery_items : gallery_items[k].id # d.id

\* the step is a GET /img/<item_id> whose query ran
ImgAnswered ==
  /\ requests' = requests + 1
  /\ route' = "GET /img"
  /\ img_response'.raised # "db_conn"

\* C12: an image request for an id without Deal, or whose Deal has null
\* image_bytes, is answered 404; one whose Deal has image_bytes is answered
\* with those bytes and the stored MIME type, the generic binary type when
\* that is null; no such request raises.
C12_ImageLookup ==
  [][ImgAnswered =>
       LET found == {d \in deals : d.id = img_request'}
       IN /\ img_response'.raised = ""
          /\ (\A d \in found : d.image_bytes = None)
             => img_response'.status = 404
          /\ \A d \in found :
               d.image_bytes # None
               => /\ img_response'.status = 200
                  /\ img_response'.body = d.image_bytes
                  /\ img_response'.mimetype =
                       IF d.image_mime = None
                       THEN Some("application/octet-stream")
                       ELSE d.image_mime]_vars

\* C12 witness: the image of a Deal stored with a null MIME type has been
\* served with the generic type, while the store also holds a Deal without image
C12_Witness ==
  /\ route = "GET /img"
  /\ img_response.status = 200
  /\ img_response.mimetype = Some("application/octet-stream")
  /\ \E d \in deals :
       d.id = img_request /\ d.image_bytes # None /\ d.image_mime = None
  /\ \E d \in deals : d.image_bytes = None

\* C13: the verification request is answered 200 with hub.challenge exactly
\* when hub.mode is subscribe and hub.verify_token is the secret, and 403
\* without the challenge otherwise.
C13_Verification ==
  verify_request.sent =>
    LET accepted == /\ verify_request.mode = Some("subscribe")
                    /\ verify_request.token = Some(VERIFY_TOKEN)
        challenge == IF verify_request.challenge = None THEN ""
                     ELSE verify_request.challenge[1]
    IN /\ accepted <=> verify_response.status = 200
       /\ accepted => verify_response.body = challenge
       /\ ~accepted => /\ verify_response.status = 403
                       /\ (challenge # "" => verify_response.body # challenge)

\* C13 witness: a subscription with the secret had its challenge echoed
C13_Witness ==
  /\ verify_request.sent
  /\ verify_request.mode = Some("subscribe")
  /\ verify_response.status = 200
  /\ verify_response.body = "1158201444"

\* C14: every stored Deal stays in the store with all its fields, whatever
\* step is taken.
C14_DealsImmutable ==
  [][\A d \in deals : d \in deals']_vars

\* C14 witness: an INSERT with the fingerprint of a stored Deal and other
\* media has been skipped
C14_Witness ==
  \E p \in Procs :
    /\ pc[p] = "commit"
    /\ last_save[p] = "skipped"
    /\ \E d \in deals :
         /\ d.url_hash = NewRow(p).url_hash
         /\ d.image_bytes # NewRow(p).image_bytes

\* a message object whose timestamp is absent, empty or not a number
TimestampUnusable(m) ==
  ~Truthy(m.timestamp) \/ ParseInt(m.timestamp[1]) < 0

\* C15: a message enters the url loop with msg_time the number of its
\* timestamp, or the current time when the timestamp is absent or not a
\* number; and no delivery fails at a message because of its timestamp.
C15_TimestampResolved ==
  \A p \in Procs :
    /\ (pc[p] = "save" /\ u[p] = 1)
       => msg_time[p] = IF TimestampUnusable(CurMsg(p)) THEN now
                        ELSE ParseInt(CurMsg(p).timestamp[1])
    /\ (pc[p] = "done" /\ failure[p] = "malformed")
       => ~(/\ CurItem(p).kind = "msg"
            /\ ~CurMsg(p).bad
            /\ TimestampUnusable(CurMsg(p)))

\* for each item of each payload, the entry and change it comes from (None for
\* a fragment that is not a message)
BlockOfItem ==
  [pid \in PayloadIds |->
    Flatten([e \in 1..Len(Payloads[pid]) |->
      IF Payloads[pid][e].bad THEN <<None>>
      ELSE Flatten([c \in 1..Len(Payloads[pid][e].changes) |->
             LET ch == Payloads[pid][e].changes[c]
             IN IF ch.bad \/ (ch.contacts # <<>> /\ ch.contacts[1].bad)
                THEN <<None>>
                ELSE [k \in 1..Len(ch.messages) |-> Some(<<e, c>>)]])])]

\* the profile name of the first contact of the value block of item k
BlockName(pid, k) ==
  LET b == BlockOfItem[pid][k][1]
      ch == Payloads[pid][b[1]].changes[b[2]]
  IN IF ch.contacts = <<>> THEN None ELSE ch.contacts[1].name

\* C16: the row a handler inserts for a message carries the profile name of
\* the first contact of that message's own value block, null when the block
\* has no contacts, and the message's own sender id.
C16_BlockSenderName ==
  \A p \in Procs :
    (pc[p] = "commit" /\ pending[p] # None)
    => /\ pending[p][1].wa_name = BlockName(payload[p], i[p])
       /\ pending[p][1].wa_from = CurMsg(p).from

\* C16 witness: one delivery stored a Deal of sender 6 under the first contact
\* name of its block, and a Deal of the next block, without contacts, under null
C16_Witness ==
  \E p \in Procs :
    /\ pc[p] = "done" /\ payload[p] = 9 /\ failure[p] = "none"
    /\ \E d1 \in deals, d2 \in deals :
         /\ d1.wa_name = Ana /\ d1.wa_from = From6
         /\ d2.wa_name = None /\ d2.wa_from = From5

\* item k of the payload is a message object of a type other than text, image
UnknownType(pid, k) ==
  /\ AllItems(pid)[k].kind = "msg"
  /\ ~AllItems(pid)[k].m.bad
  /\ AllItems(pid)[k].m.type \notin {"text", "image"}

\* C17: a message of unknown type raises nothing, has no media downloaded and
\* no row inserted, and the loop goes on to the messages after it.
C17_UnknownTypeSkipped ==
  \A p \in Procs :
    \A k \in 1..Len(AllItems(payload[p])) :
      (pc[p] # "idle" /\ UnknownType(payload[p], k))
      => /\ ~(pc[p] = "done" /\ failure[p] # "none" /\ i[p] = k)
         /\ \A c \in DOMAIN media_calls[p] : media_calls[p][c] # k
         /\ (InFlight(p) => i[p] # k)

\* the digest of the stored sender, name, time and url of a Deal
DigestOfStored(d) ==
  sha256(Fmt(d.wa_from) \o <<"|">> \o Fmt(d.wa_name) \o <<"|">>
         \o DigitsOf(d.msg_time) \o <<"|">> \o d.url)

\* C18: the url_hash of every stored Deal, and of every row an open
\* transaction holds, is the digest of that row's own wa_from, wa_name,
\* msg_time and url.
C18_StoredFingerprint ==
  /\ \A d \in deals : d.url_hash = DigestOfStored(d)
  /\ \A p \in Procs :
       pending[p] # None => pending[p][1].url_hash = DigestOfStored(pending[p][1])

\* C18 witness: the store holds a Deal with an image, a Deal without, and a
\* Deal whose sender name is null
C18_Witness ==
  /\ \E d \in deals : d.image_bytes # None
  /\ \E d \in deals : d.image_bytes = None
  /\ \E d \in deals : d.wa_name = None

\* the links of each payload in the order of the loops: item, url index, and
\* the sender, name and url of the Deal
LinksOf ==
  [pid \in PayloadIds |->
    Flatten([k \in 1..Len(AllItemsOf[pid]) |->
      [v \in 1..Len(UrlsOf[pid][k]) |->
         [item |-> k, link |-> v,
          wa_from |-> AllItemsOf[pid][k].m.from,
          wa_name |-> AllItemsOf[pid][k].wa_name,
          url |-> UrlsOf[pid][k][v]]]])]

\* the link comes before the point at which handler p stopped
BeforeStop(p, l) == l.item < i[p] \/ (l.item = i[p] /\ l.link < u[p])

IsDealOf(d, l) ==
  d.wa_from = l.wa_from /\ d.wa_name = l.wa_name /\ d.url = l.url

\* the first link of the payload that gives Deal d
FirstLink(pid, d) ==
  CHOOSE x \in DOMAIN LinksOf[pid] :
    /\ IsDealOf(d, LinksOf[pid][x])
    /\ \A y \in DOMAIN LinksOf[pid] : IsDealOf(d, LinksOf[pid][y]) => x <= y

\* the only request so far was a delivery, and it was aborted
SoleDeliveryAborted(p) ==
  requests = 1 /\ pc[p] = "done" /\ failure[p] # "none"

\* C19 as stated: after an aborted delivery the Deals of the links before the
\* failing message are persisted and no Deal of the failing message is.
C19_AbortKeepsEarlierMessages ==
  \A p \in Procs :
    SoleDeliveryAborted(p)
    => \A x \in DOMAIN LinksOf[payload[p]] :
         LET l == LinksOf[payload[p]][x]
         IN /\ l.item < i[p] => \E d \in deals : IsDealOf(d, l)
            /\ l.item = i[p] => ~\E d \in deals : IsDealOf(d, l)

\* C19 amended: after an aborted delivery the store holds exactly the Deals of
\* the links before the failure point, earlier links of the failing message
\* included, with ids in the order of the links.
C19_AbortKeepsEarlierLinks ==
  \A p \in Procs :
    SoleDeliveryAborted(p)
    => LET links == LinksOf[payload[p]]
       IN /\ \A x \in DOMAIN links :
               BeforeStop(p, links[x]) => \E d \in deals : IsDealOf(d, links[x])
          /\ \A d \in deals :
               \E x \in DOMAIN links :
                 BeforeStop(p, links[x]) /\ IsDealOf(d, links[x])
          /\ \A d1 \in deals, d2 \in deals :
               d1.id < d2.id
               => FirstLink(payload[p], d1) < FirstLink(payload[p], d2)

\* C19 witness: the store failed at the third link of a message after the
\* Deals of its first two links were committed
C19_Witness ==
  \E p \in Procs :
    /\ SoleDeliveryAborted(p)
    /\ failure[p] = "store"
    /\ u[p] = 3
    /\ Cardinality(deals) = 2

\* handler p has passed the media step of item k of its payload
MediaStepDone(p, k) ==
  \/ k < i[p]
  \/ /\ k = i[p]
     /\ \/ InFlight(p)
        \/ pc[p] = "done" /\ failure[p] \in {"none", "media", "store"}

\* the image messages with a media id among the first k items of handler p
\* that have passed the media step, in order
ImagesFetched(p) ==
  LET items == Items(payload[p])
      F[k \in 0..Len(items)] ==
        IF k = 0 THEN <<>>
        ELSE IF /\ MediaStepDone(p, k)
                /\ items[k].kind = "msg"
                /\ ~items[k].m.bad
                /\ items[k].m.type = "image"
                /\ items[k].m.media_id # None
             THEN Append(F[k - 1], k)
             ELSE F[k - 1]
  IN F[Len(items)]

\* C20: within a delivery download_media has been called once for each image
\* message with a media id that was processed, in order, and for no other
\* message; the media of a message stay the same through its url loop.
C20_OneFetchPerImage ==
  /\ [](\A p \in Procs : pc[p] # "idle" => media_calls[p] = ImagesFetched(p))
  /\ [][\A p \in Procs :
          (InFlight(p) /\ pc'[p] \in {"save", "commit"})
          => /\ i'[p] = i[p]
             /\ media_calls'[p] = media_calls[p]
             /\ image_bytes'[p] = image_bytes[p]
             /\ image_mime'[p] = image_mime[p]]_vars

\* C20 witness: a delivery fetched the media of an image whose caption has no
\* link, once, and of no other message
C20_Witness ==
  \E p \in Procs :
    /\ pc[p] = "done" /\ payload[p] = 9 /\ failure[p] = "none"
    /\ media_calls[p] = <<2>>
    /\ UrlsOf[9][2] = <<>>

====
